---- MODULE Spec2Model ----
(***************************************************************************)
(* Model of the md2docx conversion-task pipeline: the submission handler   *)
(* (views.api_upload / views.convert_markdown), the reactive executor      *)
(* (signals.process_conversion_on_create + signals._process_task), the     *)
(* polling worker (management/commands/process_tasks.py) and the pure      *)
(* helpers of formats.py and _safe_output_name.                            *)
(*                                                                         *)
(* Text is modelled as a sequence of one-character strings, so that        *)
(* lower(), strip(), Path.name, Path.stem and re.sub are computed the way  *)
(* the code computes them.  A task's uuid is one token ("uuid1", ...).     *)
(***************************************************************************)
EXTENDS Integers, Sequences, FiniteSets, TLC

\* ------------------------------------------------------------------ bounds
\* Number of tasks that may be submitted where one dispatcher runs (the reactive
\* threads alone, or the polling worker alone).
MaxTasks == 2
\* Number of tasks that may be submitted where the reactive threads and the
\* polling worker run side by side.
MaxMixedTasks == 1
\* Number of tasks that may be submitted where the HTTP views are exercised.
MaxSurfaceTasks == 1
\* Longest client-supplied filename drawn for the pure-function checks.
MaxNameLen == 4
\* Longest extension drawn (beyond the table keys) for the pure-function checks.
MaxExtLen == 2

Ids == 1..MaxTasks

\* ------------------------------------------------------------- characters
UpperChars == <<"A","B","C","D","E","F","G","H","I","J","K","L","M",
                "N","O","P","Q","R","S","T","U","V","W","X","Y","Z">>
LowerChars == <<"a","b","c","d","e","f","g","h","i","j","k","l","m",
                "n","o","p","q","r","s","t","u","v","w","x","y","z">>
DigitChars == {"0","1","2","3","4","5","6","7","8","9"}
UuidTokens == <<"uuid1","uuid2","uuid3","uuid4","uuid5","uuid6">>

Range(f) == {f[i] : i \in DOMAIN f}

\* The character class [A-Za-z0-9_-] of the sanitising regex.  A uuid token
\* stands for 36 characters of that class (hex digits and '-').
AllowedChars ==
  Range(UpperChars) \cup Range(LowerChars) \cup DigitChars \cup {"_", "-"}
    \cup Range(UuidTokens)

\* Characters str.strip() removes.
Whitespace == {" ", "\t", "\n"}

\* str.lower() on one character.
LowerChar(c) ==
  IF \E i \in DOMAIN UpperChars : UpperChars[i] = c
  THEN LowerChars[CHOOSE i \in DOMAIN UpperChars : UpperChars[i] = c]
  ELSE c

\* str.lower()
Lower(s) == [i \in DOMAIN s |-> LowerChar(s[i])]

\* str(task.id)
IdStr(t) == <<UuidTokens[t]>>

\* Index of the last occurrence of character c in s, 0 when absent (rfind + 1).
RFind(s, c) ==
  IF \E i \in DOMAIN s : s[i] = c
  THEN CHOOSE i \in DOMAIN s : s[i] = c /\ \A j \in DOMAIN s : s[j] = c => j <= i
  ELSE 0

\* s[i:] and s[:i] in 1-based terms.
From(s, i) == SubSeq(s, i, Len(s))
Upto(s, i) == SubSeq(s, 1, i)

\* ------------------------------------------------------------- formats.py
S_md == <<"m","d">>
S_markdown == <<"m","a","r","k","d","o","w","n">>
S_txt == <<"t","x","t">>
S_docx == <<"d","o","c","x">>
S_html == <<"h","t","m","l">>
S_htm == <<"h","t","m">>
S_tex == <<"t","e","x">>
S_latex == <<"l","a","t","e","x">>
S_rtf == <<"r","t","f">>
S_odt == <<"o","d","t">>
S_epub == <<"e","p","u","b">>
S_pdf == <<"p","d","f">>

MdOutputs == <<S_docx, S_pdf, S_html, S_odt, S_rtf, S_tex, S_epub>>
HtmlOutputs == <<S_md, S_pdf, S_docx, S_odt>>
BinOutputs == <<S_md, S_docx, S_pdf>>

SUPPORTED_OUTPUTS ==
  (S_md :> MdOutputs) @@ (S_markdown :> MdOutputs)
    @@ (S_docx :> <<S_md, S_pdf, S_html, S_odt, S_rtf, S_tex>>)
    @@ (S_html :> HtmlOutputs) @@ (S_htm :> HtmlOutputs)
    @@ (S_tex :> <<S_pdf, S_docx, S_md>>)
    @@ (S_rtf :> BinOutputs) @@ (S_odt :> BinOutputs) @@ (S_epub :> BinOutputs)
    @@ (S_pdf :> <<S_md, S_docx, S_html>>)

INPUT_READERS ==
  (S_md :> S_markdown) @@ (S_markdown :> S_markdown) @@ (S_txt :> S_markdown)
    @@ (S_docx :> S_docx) @@ (S_html :> S_html) @@ (S_htm :> S_html)
    @@ (S_rtf :> S_rtf) @@ (S_odt :> S_odt) @@ (S_tex :> S_latex)
    @@ (S_epub :> S_epub) @@ (S_pdf :> S_pdf)

DEFAULT_OUTPUT == S_docx
DEFAULT_INPUT_READER == S_markdown

\* dict.get(key, default)
DictGet(d, k, default) == IF k \in DOMAIN d THEN d[k] ELSE default

\* allowed_outputs with the lookup done on the extension as given.
allowed_outputs_case_sensitive(input_ext) ==
  DictGet(SUPPORTED_OUTPUTS, input_ext, <<DEFAULT_OUTPUT>>)

allowed_outputs(input_ext) ==
  DictGet(SUPPORTED_OUTPUTS, Lower(input_ext), <<DEFAULT_OUTPUT>>)

input_reader_for(ext) ==
  DictGet(INPUT_READERS, Lower(ext), DEFAULT_INPUT_READER)

\* ------------------------------------------------------ _safe_output_name
\* The parts of a path: split on "/", empty and "." components dropped
\* (pathlib's parsing of a POSIX path).
RECURSIVE PathParts(_)
PathParts(s) ==
  IF s = <<>> THEN <<>>
  ELSE LET cut == IF \E i \in DOMAIN s : s[i] = "/"
                  THEN CHOOSE i \in DOMAIN s :
                         s[i] = "/" /\ \A j \in 1..(i-1) : s[j] # "/"
                  ELSE Len(s) + 1
           part == Upto(s, cut - 1)
           rest == IF cut >= Len(s) THEN <<>> ELSE From(s, cut + 1)
       IN  IF part = <<>> \/ part = <<".">>
           THEN PathParts(rest)
           ELSE <<part>> \o PathParts(rest)

\* Path(s).name
PathName(s) ==
  LET parts == PathParts(s)
  IN  IF parts = <<>> THEN <<>> ELSE parts[Len(parts)]

\* Path(name).stem for a single component: the text before the last dot,
\* unless that dot is the first or the last character.
PathStem(name) ==
  LET i == RFind(name, ".")
  IN  IF 1 < i /\ i < Len(name) THEN Upto(name, i - 1) ELSE name

\* str.strip()
RECURSIVE LStrip(_)
LStrip(s) ==
  IF s # <<>> /\ Head(s) \in Whitespace THEN LStrip(Tail(s)) ELSE s

RECURSIVE RStrip(_)
RStrip(s) ==
  IF s # <<>> /\ s[Len(s)] \in Whitespace THEN RStrip(Upto(s, Len(s) - 1)) ELSE s

Strip(s) == RStrip(LStrip(s))

\* str.lstrip('.')
RECURSIVE LStripDots(_)
LStripDots(s) ==
  IF s # <<>> /\ Head(s) = "." THEN LStripDots(Tail(s)) ELSE s

\* The sanitiser with one "_" written per disallowed character.
SubPerChar(s) == [i \in DOMAIN s |-> IF s[i] \in AllowedChars THEN s[i] ELSE "_"]

\* re.sub(r"[^A-Za-z0-9_-]+", '_', s): every maximal run of characters outside
\* the class becomes one "_".
RECURSIVE SkipDisallowed(_)
SkipDisallowed(s) ==
  IF s # <<>> /\ Head(s) \notin AllowedChars THEN SkipDisallowed(Tail(s)) ELSE s

RECURSIVE SubRuns(_)
SubRuns(s) ==
  IF s = <<>> THEN <<>>
  ELSE IF Head(s) \in AllowedChars
       THEN <<Head(s)>> \o SubRuns(Tail(s))
       ELSE <<"_">> \o SubRuns(SkipDisallowed(Tail(s)))

\* The stem taken as the client wrote it.
Unsanitized(s) == s

Sanitize(s) == SubRuns(s)

\* task.output_format or DEFAULT_OUTPUT
OrDefault(fmt) == IF fmt = <<>> THEN DEFAULT_OUTPUT ELSE fmt

\* _safe_output_name(task), from the three fields it reads.
SafeOutputName(id, original_filename, output_format) ==
  LET ext == LStripDots(OrDefault(output_format))
      stem == Sanitize(Strip(PathStem(PathName(original_filename))))
  IN  IF original_filename # <<>> /\ stem # <<>>
      THEN stem \o <<".">> \o ext
      ELSE IdStr(id) \o <<".">> \o ext

\* ------------------------------------------------------------------ state
VARIABLES
  store,     \* Task Store: task id -> ConversionTask row (domain = rows present)
  uploads,   \* file names present in UPLOADS_DIR
  exports,   \* file names present in EXPORTS_DIR
  nextId,    \* number of tasks created so far
  hpc,       \* submission handler of task t: position in api_upload
  hloc,      \* submission handler of task t: its in-memory task and dest_ext
  tpc,       \* reactive thread of task t: position in _process_task
  tmem,      \* reactive thread of task t: its in-memory task object
  tin,       \* reactive thread of task t: input_path it resolved
  tproc,     \* reactive thread of task t: result of subprocess.run
  wpc,       \* polling worker: position in Command.handle
  wonce,     \* polling worker: the --once option
  wlist,     \* polling worker: rows of the pending queryset not yet iterated
  wtask,     \* polling worker: the in-memory task object of the loop body
  win,       \* polling worker: input_path it resolved
  wproc,     \* polling worker: result of subprocess.run
  runs,      \* converter invocations made so far for task t
  signals,   \* whether process_conversion_on_create dispatches (not a test database)
  quota,     \* number of submissions this run accepts
  pin,       \* input drawn for the pure helpers
  pout,      \* what the pure helper returned for pin
  resp,      \* the response of the latest status, download or delete request,
             \* or of the latest rejected submission
  hresp      \* the response the submission view returned for task t

sysVars == <<store, uploads, exports, nextId, hpc, hloc, tpc, tmem, tin, tproc,
             wpc, wonce, wlist, wtask, win, wproc, runs, signals, quota, resp, hresp>>
pureVars == <<pin, pout>>
vars == <<store, uploads, exports, nextId, hpc, hloc, tpc, tmem, tin, tproc,
          wpc, wonce, wlist, wtask, win, wproc, runs, signals, quota, pin, pout, resp, hresp>>

STATUS_PENDING == "pending"
STATUS_PROCESSING == "processing"
STATUS_DONE == "done"
STATUS_FAILED == "failed"

\* No task object (a local not yet assigned).
NoTask ==
  [id |-> 0, status |-> "none", progress |-> 0, result_file |-> <<>>,
   error_message |-> "", output_format |-> <<>>, original_filename |-> <<>>,
   created_at |-> 0]

\* ConversionTask.objects.create(status=PENDING, output_format=..., original_filename=...)
\* with the model's field defaults.
NewTask(t, fmt, orig) ==
  [id |-> t, status |-> STATUS_PENDING, progress |-> 0, result_file |-> <<>>,
   error_message |-> "", output_format |-> fmt, original_filename |-> orig,
   created_at |-> t]

\* No request (the submission handler is not running).
NoRequest == [uploaded |-> FALSE, name |-> <<>>, markdown |-> FALSE, output_format |-> <<>>]

\* The submission handler's locals outside a request.
NoLocals == [task |-> NoTask, dest_ext |-> <<>>, uploaded |-> FALSE, req |-> NoRequest]

\* No response yet.  `keys` are the keys of the JSON payload (or of the template
\* context), the other fields their values.
NoResponse ==
  [view |-> "none", id |-> 0, code |-> 0, keys |-> {}, status |-> "", progress |-> 0,
   original_filename |-> <<>>, output_format |-> <<>>, error |-> "", filename |-> <<>>]

\* No subprocess result yet.
NoProc ==
  [kind |-> "none", returncode |-> 0, wrote |-> FALSE, stderr |-> "", stdout |-> ""]

\* task.save(): every field of the in-memory object is written to the row with
\* that primary key (UPDATE, or INSERT when no such row exists).
Save(st, task) == (task.id :> task) @@ st

\* uploads / exports file names
InputName(t, ext) == IdStr(t) \o <<".">> \o ext

\* os.path.relpath(output_path, MEDIA_ROOT)
RelPath(output_filename) == <<"exports", "/">> \o output_filename

\* Path.suffix.lstrip('.') of a file name
SuffixOf(name) ==
  LET i == RFind(name, ".")
  IN  IF 1 < i /\ i < Len(name) THEN From(name, i + 1) ELSE <<>>

\* UPLOADS_DIR.glob(f"{task.id}.*")
GlobInput(t) ==
  {f \in uploads : Len(f) > 2 /\ Upto(f, 2) = IdStr(t) \o <<".">>}

\* The paths _find_input_file may return: any match of the glob (directory
\* order decides which comes first), else the legacy .md path.
FindInputFile(t) ==
  IF GlobInput(t) # {} THEN GlobInput(t) ELSE {InputName(t, S_md)}

\* ------------------------------------------------------------ submissions
F_a_docx == <<"a", ".", "d", "o", "c", "x">>

\* The requests drawn in the model: an uploaded file a.docx to be converted to
\* pdf, and pasted Markdown text with the default output format.
Requests ==
  { [uploaded |-> TRUE, name |-> F_a_docx, markdown |-> FALSE, output_format |-> S_pdf],
    [uploaded |-> FALSE, name |-> <<>>, markdown |-> TRUE, output_format |-> S_docx] }

F_A_MD == <<"A", ".", "M", "D">>
F_README == <<"R", "E", "A", "D", "M", "E">>
S_PDF == <<"P", "D", "F">>
S_exe == <<"e", "x", "e">>

\* The requests drawn where the submission views themselves are examined: the
\* two above, an upper-case spelling of name and format, a filename without a
\* dot, and four requests the validation refuses (a format docx cannot be
\* converted to, neither file nor text, a format that does not exist, and pdf
\* for a file of unknown type).
Submissions ==
  Requests \cup
  { [uploaded |-> TRUE, name |-> F_A_MD, markdown |-> FALSE, output_format |-> S_PDF],
    [uploaded |-> TRUE, name |-> F_README, markdown |-> FALSE, output_format |-> S_docx],
    [uploaded |-> TRUE, name |-> F_a_docx, markdown |-> FALSE, output_format |-> S_epub],
    [uploaded |-> FALSE, name |-> <<>>, markdown |-> FALSE, output_format |-> S_docx],
    [uploaded |-> FALSE, name |-> <<>>, markdown |-> TRUE, output_format |-> S_exe],
    [uploaded |-> TRUE, name |-> F_README, markdown |-> FALSE, output_format |-> S_pdf] }

\* original_name.rsplit('.', 1)[-1].lower() and its two other branches
InputExt(req) ==
  IF req.uploaded /\ RFind(req.name, ".") > 0
  THEN Lower(From(req.name, RFind(req.name, ".") + 1))
  ELSE IF req.uploaded THEN <<>> ELSE S_md

OriginalName(req) == IF req.uploaded THEN req.name ELSE <<>>

\* request.POST.get('output_format', 'docx').lower()
ChosenOutput(req) == Lower(req.output_format)

\* `not uploaded and not markdown_text` is false (views.py 73, 251).
HasInput(req) == req.uploaded \/ req.markdown

\* The format check with the allowed list always taken for 'md'.
ChosenIsAllowedForMd(req) == ChosenOutput(req) \in Range(allowed_outputs(S_md))

\* `chosen_output in allowed_outputs` (views.py 90-92, 263-265).
ChosenIsAllowed(req) == ChosenOutput(req) \in Range(allowed_outputs(InputExt(req)))

\* ------------------------------------------------------ external converter
\* What subprocess.run can give back: exit status zero with or without the
\* output file written, or a non-zero exit with text on both streams, on
\* stdout only, or on neither.  A converter that is given a path that does not
\* exist fails with a diagnostic on stderr; a non-zero exit writes no output.
ProcResults(inputExists) ==
  { r \in [kind : {"exit"}, returncode : {0, 1}, wrote : BOOLEAN,
           stderr : {"", "pandoc: error"}, stdout : {"", "pandoc: output"}] :
      /\ r.wrote => r.returncode = 0
      /\ r.returncode = 0 => (r.stderr = "" /\ r.stdout = "")
      /\ r.stderr # "" => r.stdout # ""
      /\ ~inputExists => (r.returncode = 1 /\ r.stderr # "") }

\* The CompletedProcess the caller keeps: return code and the two streams.
Completed(r) == [r EXCEPT !.wrote = FALSE]

\* One more converter invocation counted: 0, 1, or 2 for "more than once".
Counted(n) == IF n < 2 THEN n + 1 ELSE n

\* subprocess.TimeoutExpired (timeout=60) and OSError (binary not runnable)
RaisedTimeout ==
  [kind |-> "raise", returncode |-> 0, wrote |-> FALSE,
   stderr |-> "timed out after 60 seconds", stdout |-> ""]
RaisedOSError ==
  [kind |-> "raise", returncode |-> 0, wrote |-> FALSE,
   stderr |-> "No such file or directory: pandoc", stdout |-> ""]

\* The diagnostic chosen with standard output first.
ErrorTextStdoutFirst(proc, generic) ==
  IF proc.stdout # "" THEN proc.stdout
  ELSE IF proc.stderr # "" THEN proc.stderr ELSE generic

\* proc.stderr or proc.stdout or <generic>
ErrorText(proc, generic) ==
  IF proc.stderr # "" THEN proc.stderr
  ELSE IF proc.stdout # "" THEN proc.stdout ELSE generic

\* The terminal update deciding on the exit status alone.
FinishedOnExitStatus(task, proc, outputExists, generic) ==
  IF proc.kind = "raise"
  THEN [task EXCEPT !.status = STATUS_FAILED, !.error_message = proc.stderr,
                    !.progress = 0]
  ELSE IF proc.returncode = 0
       THEN [task EXCEPT !.result_file =
                           RelPath(SafeOutputName(task.id, task.original_filename,
                                                  task.output_format)),
                         !.status = STATUS_DONE, !.progress = 100,
                         !.error_message = ""]
       ELSE [task EXCEPT !.status = STATUS_FAILED, !.progress = 0,
                         !.error_message =
                           IF proc.stderr # "" THEN proc.stderr
                           ELSE IF proc.stdout # "" THEN proc.stdout ELSE generic]

\* The task object after lines 103-116 / 118-122 of _process_task (and the same
\* lines of the worker): DONE when the exit status is zero and the output
\* exists, FAILED otherwise; the except branch when subprocess.run raised.
Finished(task, proc, outputExists, generic) ==
  IF proc.kind = "raise"
  THEN [task EXCEPT !.status = STATUS_FAILED, !.error_message = proc.stderr,
                    !.progress = 0]
  ELSE IF proc.returncode = 0 /\ outputExists
       THEN [task EXCEPT !.result_file =
                           RelPath(SafeOutputName(task.id, task.original_filename,
                                                  task.output_format)),
                         !.status = STATUS_DONE, !.progress = 100,
                         !.error_message = ""]
       ELSE [task EXCEPT !.status = STATUS_FAILED, !.progress = 0,
                         !.error_message = ErrorText(proc, generic)]

OutputName(task) ==
  SafeOutputName(task.id, task.original_filename, task.output_format)

\* ------------------------------------------------------------------- Init
SysInit ==
  /\ store = << >>
  /\ uploads = {}
  /\ exports = {}
  /\ nextId = 0
  /\ hpc = [t \in Ids |-> "idle"]
  /\ hloc = [t \in Ids |-> NoLocals]
  /\ tpc = [t \in Ids |-> "none"]
  /\ tmem = [t \in Ids |-> NoTask]
  /\ tin = [t \in Ids |-> <<>>]
  /\ tproc = [t \in Ids |-> NoProc]
  /\ wpc = "off"
  /\ wonce = FALSE
  /\ wlist = <<>>
  /\ wtask = NoTask
  /\ win = <<>>
  /\ wproc = NoProc
  /\ runs = [t \in Ids |-> 0]
  /\ resp = NoResponse
  /\ hresp = [t \in Ids |-> NoResponse]

NoPure == [kind |-> "none", text |-> <<>>, fmt |-> <<>>, id |-> 0]
NoOut == [op |-> "none", value |-> <<>>]

\* The deployment with the signal handler connected and the polling command
\* available beside it.
Init ==
  /\ SysInit
  /\ signals = TRUE
  /\ quota = MaxMixedTasks
  /\ pin = NoPure
  /\ pout = NoOut

\* The deployment in which only the reactive threads dispatch.
InitReactive ==
  /\ SysInit
  /\ signals = TRUE
  /\ quota = MaxTasks
  /\ pin = NoPure
  /\ pout = NoOut

\* The deployment in which only the polling worker dispatches: the signal
\* handler returns early (database name containing 'test').
InitPolling ==
  /\ SysInit
  /\ signals = FALSE
  /\ quota = MaxTasks
  /\ pin = NoPure
  /\ pout = NoOut

\* ------------------------------------------------- submission (api_upload)
\* process_conversion_on_create for a save of `task`: a thread is started when
\* the handler is not skipped, the row was inserted and its status is pending.
Dispatches(created, task) ==
  signals /\ created /\ task.status = STATUS_PENDING

\* Lines 248-275: validation, then ConversionTask.objects.create(); its
\* post_save signal starts the background thread.
ApiUploadCreate(req) ==
  /\ nextId < quota
  /\ HasInput(req)
  /\ ChosenIsAllowed(req)
  /\ LET t == nextId + 1
         task == NewTask(t, ChosenOutput(req), OriginalName(req))
         ext == InputExt(req)
     IN  /\ nextId' = t
         /\ store' = Save(store, task)
         /\ hpc' = [hpc EXCEPT ![t] = "created"]
         /\ hloc' = [hloc EXCEPT ![t] =
                       [task |-> task,
                        dest_ext |-> IF ext = <<>> THEN S_md ELSE ext,
                        uploaded |-> req.uploaded,
                        req |-> [uploaded |-> req.uploaded, name |-> req.name,
                                 markdown |-> req.markdown,
                                 output_format |-> req.output_format]]]
         /\ tpc' = IF Dispatches(TRUE, task) THEN [tpc EXCEPT ![t] = "get"] ELSE tpc
  /\ UNCHANGED <<uploads, exports, tmem, tin, tproc, wpc, wonce, wlist, wtask, win,
                 wproc, runs, signals, quota, pin, pout, resp, hresp>>

\* Lines 277-288: the input is written to UPLOADS_DIR/{task.id}.{dest_ext}.
ApiUploadWrite(t) ==
  /\ hpc[t] = "created"
  /\ uploads' = uploads \cup {InputName(t, hloc[t].dest_ext)}
  /\ hpc' = [hpc EXCEPT ![t] = "written"]
  /\ UNCHANGED <<store, exports, nextId, hloc, tpc, tmem, tin, tproc, wpc, wonce,
                 wlist, wtask, win, wproc, runs, signals, quota, pin, pout, resp, hresp>>

\* The handler's in-memory task at lines 290-291: the object create() returned,
\* with progress set to 0.
HandlerTask(t) == [hloc[t].task EXCEPT !.progress = 0]

\* urls.py 6-17: the names reverse() can resolve in the md2docx namespace.
UrlNames == {"home", "convert", "status", "download", "api_upload"}

\* The payload of api_upload returned with the default status, 200.
ApiUploadResponseOk(task) ==
  [NoResponse EXCEPT !.view = "api_upload", !.id = task.id, !.code = 200,
     !.keys = {"status", "task_id", "saved_input", "status_url", "download_url"},
     !.status = task.status]

\* Lines 293-300: the JSON payload built from the in-memory task, status 201.
\* reverse() raises NoReverseMatch for a name urlpatterns does not define, and
\* the request then ends as a server error.
ApiUploadResponse(task) ==
  IF {"status", "download"} \subseteq UrlNames
  THEN [NoResponse EXCEPT !.view = "api_upload", !.id = task.id, !.code = 201,
          !.keys = {"status", "task_id", "saved_input", "status_url", "download_url"},
          !.status = task.status]
  ELSE [NoResponse EXCEPT !.view = "api_upload", !.id = task.id, !.code = 500]

\* Lines 290-300: task.progress = 0; task.save(); the response.  The post_save
\* handler runs again; it starts a thread only for a row that save() had to
\* insert.
ApiUploadSave(t) ==
  /\ hpc[t] = "written"
  /\ store' = Save(store, HandlerTask(t))
  /\ tpc' = IF Dispatches(t \notin DOMAIN store, HandlerTask(t))
            THEN [tpc EXCEPT ![t] = "get"] ELSE tpc
  /\ hpc' = [hpc EXCEPT ![t] = "done"]
  /\ hloc' = [hloc EXCEPT ![t] = NoLocals]
  /\ hresp' = [hresp EXCEPT ![t] = ApiUploadResponse(HandlerTask(t))]
  /\ UNCHANGED <<uploads, exports, nextId, tmem, tin, tproc, wpc, wonce,
                 wlist, wtask, win, wproc, runs, signals, quota, pin, pout, resp>>

\* Lines 251-252 and 265-269: the request is refused with status 400 before
\* anything is created.
ApiUploadRejection(req) ==
  IF ~HasInput(req)
  THEN [NoResponse EXCEPT !.view = "api_upload", !.code = 400, !.keys = {"error"},
          !.error = "No file or markdown provided"]
  ELSE [NoResponse EXCEPT !.view = "api_upload", !.code = 400,
          !.keys = {"error", "allowed_outputs"},
          !.error = "Unsupported output format"]

\* Lines 248-269 for a request that fails validation.
ApiUploadReject(req) ==
  /\ ~(HasInput(req) /\ ChosenIsAllowed(req))
  /\ resp' = ApiUploadRejection(req)
  /\ UNCHANGED <<store, uploads, exports, nextId, hpc, hloc, tpc, tmem, tin, tproc,
                 wpc, wonce, wlist, wtask, win, wproc, runs, signals, quota, pin, pout,
                 hresp>>

\* ------------------------------------------- submission (convert_markdown)
\* Lines 73-79 and 92-98: the form is rendered again with status 400.
ConvertMarkdownRejection(req) ==
  [NoResponse EXCEPT !.view = "convert_markdown", !.code = 400,
     !.keys = {"error", "allowed_outputs", "task", "task_id"},
     !.error = IF ~HasInput(req) THEN "Please provide a file or paste markdown."
               ELSE "Unsupported output format"]

\* Lines 70-98 for a request that fails validation.
ConvertMarkdownReject(req) ==
  /\ ~(HasInput(req) /\ ChosenIsAllowed(req))
  /\ resp' = ConvertMarkdownRejection(req)
  /\ UNCHANGED <<store, uploads, exports, nextId, hpc, hloc, tpc, tmem, tin, tproc,
                 wpc, wonce, wlist, wtask, win, wproc, runs, signals, quota, pin, pout,
                 hresp>>

\* Lines 70-104: validation, then ConversionTask.objects.create(); its
\* post_save signal starts the background thread.
ConvertMarkdownCreate(req) ==
  /\ nextId < quota
  /\ HasInput(req)
  /\ ChosenIsAllowed(req)
  /\ LET t == nextId + 1
         task == NewTask(t, ChosenOutput(req), OriginalName(req))
         ext == InputExt(req)
     IN  /\ nextId' = t
         /\ store' = Save(store, task)
         /\ hpc' = [hpc EXCEPT ![t] = "cm_created"]
         /\ hloc' = [hloc EXCEPT ![t] =
                       [task |-> task,
                        dest_ext |-> IF ext = <<>> THEN S_md ELSE ext,
                        uploaded |-> req.uploaded,
                        req |-> [uploaded |-> req.uploaded, name |-> req.name,
                                 markdown |-> req.markdown,
                                 output_format |-> req.output_format]]]
         /\ tpc' = IF Dispatches(TRUE, task) THEN [tpc EXCEPT ![t] = "get"] ELSE tpc
  /\ UNCHANGED <<uploads, exports, tmem, tin, tproc, wpc, wonce, wlist, wtask, win,
                 wproc, runs, signals, quota, pin, pout, resp, hresp>>

\* Lines 106-117: the input is written to UPLOADS_DIR/{task.id}.{dest_ext}.
ConvertMarkdownWrite(t) ==
  /\ hpc[t] = "cm_created"
  /\ uploads' = uploads \cup {InputName(t, hloc[t].dest_ext)}
  /\ hpc' = [hpc EXCEPT ![t] = "cm_written"]
  /\ UNCHANGED <<store, exports, nextId, hloc, tpc, tmem, tin, tproc, wpc, wonce,
                 wlist, wtask, win, wproc, runs, signals, quota, pin, pout, resp, hresp>>

\* Lines 126-139: the confirmation page, status 202.
ConvertMarkdownResponse(task) ==
  IF {"status", "download"} \subseteq UrlNames
  THEN [NoResponse EXCEPT !.view = "convert_markdown", !.id = task.id, !.code = 202,
          !.keys = {"task", "task_id", "status_url", "download_url", "output_format",
                    "allowed_outputs"},
          !.status = task.status, !.output_format = task.output_format]
  ELSE [NoResponse EXCEPT !.view = "convert_markdown", !.id = task.id, !.code = 500]

\* Lines 120-139: saved_path is set on both branches, so task.progress = 0;
\* task.save() always runs; then the response.
ConvertMarkdownSave(t) ==
  /\ hpc[t] = "cm_written"
  /\ store' = Save(store, HandlerTask(t))
  /\ tpc' = IF Dispatches(t \notin DOMAIN store, HandlerTask(t))
            THEN [tpc EXCEPT ![t] = "get"] ELSE tpc
  /\ hpc' = [hpc EXCEPT ![t] = "cm_done"]
  /\ hloc' = [hloc EXCEPT ![t] = NoLocals]
  /\ hresp' = [hresp EXCEPT ![t] = ConvertMarkdownResponse(HandlerTask(t))]
  /\ UNCHANGED <<uploads, exports, nextId, tmem, tin, tproc, wpc, wonce,
                 wlist, wtask, win, wproc, runs, signals, quota, pin, pout, resp>>

\* ---------------------------------------------- status, download, delete
\* The status payload with the download link given for every stored task.
StatusPayloadAlwaysLinked(t) ==
  IF t \notin DOMAIN store
  THEN [NoResponse EXCEPT !.view = "status", !.id = t, !.code = 200,
          !.keys = {"status", "task_id"}, !.status = "pending"]
  ELSE [NoResponse EXCEPT
          !.view = "status", !.id = t, !.code = 200,
          !.keys = {"status", "task_id", "progress", "original_filename",
                    "output_format", "download_url"}
                   \cup (IF store[t].status = STATUS_FAILED THEN {"error"} ELSE {}),
          !.status = store[t].status, !.progress = store[t].progress,
          !.original_filename = store[t].original_filename,
          !.output_format = store[t].output_format,
          !.error = IF store[t].status = STATUS_FAILED THEN store[t].error_message
                    ELSE ""]

\* Lines 148-173: the JSON payload of the status view.
StatusPayload(t) ==
  IF t \notin DOMAIN store
  THEN IF IdStr(t) \o <<".">> \o S_docx \in exports
       THEN [NoResponse EXCEPT !.view = "status", !.id = t, !.code = 200,
               !.keys = {"status", "task_id", "download_url"}, !.status = "done"]
       ELSE [NoResponse EXCEPT !.view = "status", !.id = t, !.code = 200,
               !.keys = {"status", "task_id"}, !.status = "pending"]
  ELSE LET task == store[t]
       IN  [NoResponse EXCEPT
              !.view = "status", !.id = t, !.code = 200,
              !.keys = {"status", "task_id", "progress", "original_filename",
                        "output_format"}
                       \cup (IF task.status = STATUS_DONE /\ task.result_file # <<>>
                             THEN {"download_url"} ELSE {})
                       \cup (IF task.status = STATUS_FAILED THEN {"error"} ELSE {}),
              !.status = task.status, !.progress = task.progress,
              !.original_filename = task.original_filename,
              !.output_format = task.output_format,
              !.error = IF task.status = STATUS_FAILED THEN task.error_message ELSE ""]

\* GET /status/{task_id}
Status(t) ==
  /\ resp' = StatusPayload(t)
  /\ UNCHANGED <<store, uploads, exports, nextId, hpc, hloc, tpc, tmem, tin, tproc,
                 wpc, wonce, wlist, wtask, win, wproc, runs, signals, quota, pin, pout,
                 hresp>>

\* A FileResponse for the file `name` of EXPORTS_DIR, 404 when there is none.
Streamed(t, name) ==
  [NoResponse EXCEPT !.view = "download", !.id = t, !.code = 200, !.filename = name]
NotFound(t) == [NoResponse EXCEPT !.view = "download", !.id = t, !.code = 404]

\* Lines 205-211: the legacy path EXPORTS_DIR/{task_id}.docx.
LegacyDownload(t) ==
  IF IdStr(t) \o <<".">> \o S_docx \in exports
  THEN Streamed(t, IdStr(t) \o <<".">> \o S_docx)
  ELSE NotFound(t)

\* Lines 192-211: the stored result file when the record names one (opening a
\* file that is not there raises, which ends the request as a server error),
\* else EXPORTS_DIR/{task_id}.{output_format}, else the legacy path.
DownloadResponse(t) ==
  IF t \notin DOMAIN store THEN LegacyDownload(t)
  ELSE LET task == store[t]
           candidate == IdStr(t) \o <<".">> \o OrDefault(task.output_format)
       IN  IF task.result_file # <<>>
           THEN IF PathName(task.result_file) \in exports
                THEN Streamed(t, PathName(task.result_file))
                ELSE [NoResponse EXCEPT !.view = "download", !.id = t, !.code = 500]
           ELSE IF candidate \in exports THEN Streamed(t, candidate)
                ELSE LegacyDownload(t)

\* GET /download/{task_id}
DownloadDocx(t) ==
  /\ resp' = DownloadResponse(t)
  /\ UNCHANGED <<store, uploads, exports, nextId, hpc, hloc, tpc, tmem, tin, tproc,
                 wpc, wonce, wlist, wtask, win, wproc, runs, signals, quota, pin, pout,
                 hresp>>

\* redirect(reverse("md2docx:list")), lines 220 and 238: reverse() raises
\* NoReverseMatch for a name urlpatterns does not define, and the request then
\* ends as a server error.
DeleteResponse(t) ==
  IF "list" \in UrlNames
  THEN [NoResponse EXCEPT !.view = "delete_task", !.id = t, !.code = 302]
  ELSE [NoResponse EXCEPT !.view = "delete_task", !.id = t, !.code = 500]

\* The row with key t removed (task.delete()).
Without(st, t) == [u \in DOMAIN st \ {t} |-> st[u]]

\* Lines 217-238: the result file named by the record and UPLOADS_DIR/{id}.md
\* are removed when present, then the row; an unknown id goes straight to the
\* redirect.
DeleteTask(t) ==
  /\ IF t \in DOMAIN store
     THEN /\ exports' = IF store[t].result_file # <<>>
                        THEN exports \ {PathName(store[t].result_file)}
                        ELSE exports
          /\ uploads' = uploads \ {InputName(t, S_md)}
          /\ store' = Without(store, t)
     ELSE UNCHANGED <<store, uploads, exports>>
  /\ resp' = DeleteResponse(t)
  /\ UNCHANGED <<nextId, hpc, hloc, tpc, tmem, tin, tproc, wpc, wonce, wlist, wtask,
                 win, wproc, runs, signals, quota, pin, pout, hresp>>

\* --------------------------------------- reactive executor (_process_task)
\* Lines 60-63: fetch the row, return when it does not exist.
ProcGet(t) ==
  /\ tpc[t] = "get"
  /\ IF t \in DOMAIN store
     THEN /\ tmem' = [tmem EXCEPT ![t] = store[t]]
          /\ tpc' = [tpc EXCEPT ![t] = "claim"]
     ELSE /\ tpc' = [tpc EXCEPT ![t] = "done"]
          /\ UNCHANGED tmem
  /\ UNCHANGED <<store, uploads, exports, nextId, hpc, hloc, tin, tproc, wpc, wonce,
                 wlist, wtask, win, wproc, runs, signals, quota, pin, pout, resp, hresp>>

\* The task object after lines 66-67.
ProcClaimed(task) == [task EXCEPT !.status = STATUS_PROCESSING, !.progress = 20]

\* Lines 66-68: status PROCESSING, progress 20, save.
ProcClaim(t) ==
  /\ tpc[t] = "claim"
  /\ tmem' = [tmem EXCEPT ![t] = ProcClaimed(tmem[t])]
  /\ store' = Save(store, ProcClaimed(tmem[t]))
  /\ tpc' = [tpc EXCEPT ![t] = "find"]
  /\ UNCHANGED <<uploads, exports, nextId, hpc, hloc, tin, tproc, wpc, wonce, wlist,
                 wtask, win, wproc, runs, signals, quota, pin, pout, resp, hresp>>

\* Lines 70-74: resolve the input path from the uploads directory.
ProcFind(t) ==
  /\ tpc[t] = "find"
  /\ \E f \in FindInputFile(t) : tin' = [tin EXCEPT ![t] = f]
  /\ tpc' = [tpc EXCEPT ![t] = "checkpoint"]
  /\ UNCHANGED <<store, uploads, exports, nextId, hpc, hloc, tmem, tproc, wpc, wonce,
                 wlist, wtask, win, wproc, runs, signals, quota, pin, pout, resp, hresp>>

\* The task object after line 77.
ProcCheckpointed(task) == [task EXCEPT !.progress = 40]

\* Lines 77-78: progress 40, save.
ProcCheckpoint(t) ==
  /\ tpc[t] = "checkpoint"
  /\ tmem' = [tmem EXCEPT ![t] = ProcCheckpointed(tmem[t])]
  /\ store' = Save(store, ProcCheckpointed(tmem[t]))
  /\ tpc' = [tpc EXCEPT ![t] = "run"]
  /\ UNCHANGED <<uploads, exports, nextId, hpc, hloc, tin, tproc, wpc, wonce, wlist,
                 wtask, win, wproc, runs, signals, quota, pin, pout, resp, hresp>>

\* Lines 100-101: subprocess.run(cmd, timeout=60).  The converter may write the
\* output file; a converter that does not exit is abandoned by TimeoutExpired.
ProcRun(t) ==
  /\ tpc[t] = "run"
  /\ \E r \in ProcResults(tin[t] \in uploads) \cup {RaisedTimeout} :
       /\ tproc' = [tproc EXCEPT ![t] = Completed(r)]
       /\ exports' = IF r.wrote THEN exports \cup {OutputName(tmem[t])} ELSE exports
  /\ runs' = [runs EXCEPT ![t] = Counted(@)]
  /\ tpc' = [tpc EXCEPT ![t] = "finish"]
  /\ UNCHANGED <<store, uploads, nextId, hpc, hloc, tmem, tin, wpc, wonce, wlist,
                 wtask, win, wproc, signals, quota, pin, pout, resp, hresp>>

\* Lines 103-122: the terminal save.
ProcFinish(t) ==
  /\ tpc[t] = "finish"
  /\ LET task == Finished(tmem[t], tproc[t], OutputName(tmem[t]) \in exports,
                          "pandoc failed with no output")
     IN  store' = Save(store, task)
  /\ tmem' = [tmem EXCEPT ![t] = NoTask]
  /\ tin' = [tin EXCEPT ![t] = <<>>]
  /\ tproc' = [tproc EXCEPT ![t] = NoProc]
  /\ tpc' = [tpc EXCEPT ![t] = "done"]
  /\ UNCHANGED <<uploads, exports, nextId, hpc, hloc, wpc, wonce, wlist, wtask,
                 win, wproc, runs, signals, quota, pin, pout, resp, hresp>>

\* ----------------------------------- polling worker (process_tasks.handle)
\* filter(status=PENDING).order_by('created_at') evaluated against the store.
PendingRows == {store[t] : t \in {u \in DOMAIN store : store[u].status = STATUS_PENDING}}

\* The pending rows ordered by '-created_at'.
RECURSIVE OrderByNewestFirst(_)
OrderByNewestFirst(rows) ==
  IF rows = {} THEN <<>>
  ELSE LET first == CHOOSE r \in rows : \A q \in rows : r.created_at >= q.created_at
       IN  <<first>> \o OrderByNewestFirst(rows \ {first})

RECURSIVE OrderByCreatedAt(_)
OrderByCreatedAt(rows) ==
  IF rows = {} THEN <<>>
  ELSE LET first == CHOOSE r \in rows : \A q \in rows : r.created_at <= q.created_at
       IN  <<first>> \o OrderByCreatedAt(rows \ {first})

\* The command is started, with or without --once (lines 47-51).
WorkerStart(once) ==
  /\ wpc = "off"
  /\ wonce' = once
  /\ wpc' = "scan"
  /\ UNCHANGED <<store, uploads, exports, nextId, hpc, hloc, tpc, tmem, tin, tproc,
                 wlist, wtask, win, wproc, runs, signals, quota, pin, pout, resp, hresp>>

\* Lines 54-60: pending.exists(); with nothing pending the command returns
\* (--once) or sleeps and scans again.
WorkerExists ==
  /\ wpc = "scan"
  /\ wpc' = IF PendingRows # {} THEN "fetch" ELSE IF wonce THEN "exited" ELSE "sleep"
  /\ UNCHANGED <<store, uploads, exports, nextId, hpc, hloc, tpc, tmem, tin, tproc,
                 wonce, wlist, wtask, win, wproc, runs, signals, quota, pin, pout, resp, hresp>>

\* time.sleep(poll) is over (lines 59 and 126).
WorkerSleep ==
  /\ wpc = "sleep"
  /\ wpc' = "scan"
  /\ UNCHANGED <<store, uploads, exports, nextId, hpc, hloc, tpc, tmem, tin, tproc,
                 wonce, wlist, wtask, win, wproc, runs, signals, quota, pin, pout, resp, hresp>>

\* The loop without the `if once: return` after the for loop.
WorkerAdvanceNeverReturns(rows) ==
  IF rows # <<>>
  THEN /\ wtask' = Head(rows)
       /\ wlist' = Tail(rows)
       /\ wpc' = "claim"
  ELSE /\ wtask' = NoTask
       /\ wlist' = <<>>
       /\ wpc' = "sleep"

\* Where the for loop goes with `rows` left to iterate: the next task object,
\* or past the loop (lines 124-126).
WorkerAdvance(rows) ==
  IF rows # <<>>
  THEN /\ wtask' = Head(rows)
       /\ wlist' = Tail(rows)
       /\ wpc' = "claim"
  ELSE /\ wtask' = NoTask
       /\ wlist' = <<>>
       /\ wpc' = IF wonce THEN "exited" ELSE "sleep"

\* Line 62: the queryset is evaluated (a second query) when the loop starts.
WorkerFetch ==
  /\ wpc = "fetch"
  /\ WorkerAdvance(OrderByCreatedAt(PendingRows))
  /\ UNCHANGED <<store, uploads, exports, nextId, hpc, hloc, tpc, tmem, tin, tproc,
                 wonce, win, wproc, runs, signals, quota, pin, pout, resp, hresp>>

\* The task object after lines 65-66.
WorkerClaimed(task) == [task EXCEPT !.status = STATUS_PROCESSING, !.progress = 5]

\* Lines 65-67: status PROCESSING, progress 5, save.
WorkerClaim ==
  /\ wpc = "claim"
  /\ wtask' = WorkerClaimed(wtask)
  /\ store' = Save(store, WorkerClaimed(wtask))
  /\ wpc' = "find"
  /\ UNCHANGED <<uploads, exports, nextId, hpc, hloc, tpc, tmem, tin, tproc, wonce,
                 wlist, win, wproc, runs, signals, quota, pin, pout, resp, hresp>>

\* Lines 69-73: resolve the input path from the uploads directory.
WorkerFind ==
  /\ wpc = "find"
  /\ \E f \in FindInputFile(wtask.id) : win' = f
  /\ wpc' = "checkpoint"
  /\ UNCHANGED <<store, uploads, exports, nextId, hpc, hloc, tpc, tmem, tin, tproc,
                 wonce, wlist, wtask, wproc, runs, signals, quota, pin, pout, resp, hresp>>

\* The task object after line 76.
WorkerCheckpointed(task) == [task EXCEPT !.progress = 20]

\* Lines 76-77: progress 20, save.
WorkerCheckpoint ==
  /\ wpc = "checkpoint"
  /\ wtask' = WorkerCheckpointed(wtask)
  /\ store' = Save(store, WorkerCheckpointed(wtask))
  /\ wpc' = "run"
  /\ UNCHANGED <<uploads, exports, nextId, hpc, hloc, tpc, tmem, tin, tproc, wonce,
                 wlist, win, wproc, runs, signals, quota, pin, pout, resp, hresp>>

\* Lines 98-99: subprocess.run(cmd) without a timeout.
WorkerRun ==
  /\ wpc = "run"
  /\ \E r \in ProcResults(win \in uploads) :
       /\ wproc' = Completed(r)
       /\ exports' = IF r.wrote THEN exports \cup {OutputName(wtask)} ELSE exports
  /\ runs' = [runs EXCEPT ![wtask.id] = Counted(@)]
  /\ wpc' = "finish"
  /\ UNCHANGED <<store, uploads, nextId, hpc, hloc, tpc, tmem, tin, tproc, wonce,
                 wlist, wtask, win, signals, quota, pin, pout, resp, hresp>>

\* Lines 98-99 when the pandoc binary cannot be started: subprocess.run raises.
WorkerRunRaises ==
  /\ wpc = "run"
  /\ wproc' = RaisedOSError
  /\ wpc' = "finish"
  /\ UNCHANGED <<store, uploads, exports, nextId, hpc, hloc, tpc, tmem, tin, tproc,
                 wonce, wlist, wtask, win, runs, signals, quota, pin, pout, resp, hresp>>

\* Lines 98-99 with a converter that never exits: nothing abandons it, the
\* command stays inside subprocess.run.
WorkerHang ==
  /\ wpc = "run"
  /\ win \in uploads
  /\ runs' = [runs EXCEPT ![wtask.id] = Counted(@)]
  /\ wpc' = "hung"
  /\ UNCHANGED <<store, uploads, exports, nextId, hpc, hloc, tpc, tmem, tin, tproc,
                 wonce, wlist, wtask, win, wproc, signals, quota, pin, pout, resp, hresp>>

\* The terminal save with a failure ending the command instead of the
\* iteration.
WorkerFinishAborts ==
  /\ wpc = "finish"
  /\ store' = Save(store, Finished(wtask, wproc, OutputName(wtask) \in exports,
                                   "pandoc failed"))
  /\ wproc' = NoProc
  /\ win' = <<>>
  /\ IF Finished(wtask, wproc, OutputName(wtask) \in exports, "pandoc failed").status
          = STATUS_FAILED
     THEN wtask' = NoTask /\ wlist' = <<>> /\ wpc' = "exited"
     ELSE WorkerAdvance(wlist)
  /\ UNCHANGED <<uploads, exports, nextId, hpc, hloc, tpc, tmem, tin, tproc, wonce,
                 runs, signals, quota, pin, pout, resp, hresp>>

\* Lines 101-122: the terminal save; then the next task of the list.
WorkerFinish ==
  /\ wpc = "finish"
  /\ store' = Save(store, Finished(wtask, wproc, OutputName(wtask) \in exports,
                                   "pandoc failed"))
  /\ wproc' = NoProc
  /\ win' = <<>>
  /\ WorkerAdvance(wlist)
  /\ UNCHANGED <<uploads, exports, nextId, hpc, hloc, tpc, tmem, tin, tproc, wonce,
                 runs, signals, quota, pin, pout, resp, hresp>>

\* ------------------------------------------------------------------- Next
Next ==
  \/ \E req \in Requests : ApiUploadCreate(req)
  \/ \E t \in Ids : ApiUploadWrite(t)
  \/ \E t \in Ids : ApiUploadSave(t)
  \/ \E t \in Ids : ProcGet(t)
  \/ \E t \in Ids : ProcClaim(t)
  \/ \E t \in Ids : ProcFind(t)
  \/ \E t \in Ids : ProcCheckpoint(t)
  \/ \E t \in Ids : ProcRun(t)
  \/ \E t \in Ids : ProcFinish(t)
  \/ \E once \in BOOLEAN : WorkerStart(once)
  \/ WorkerExists
  \/ WorkerSleep
  \/ WorkerFetch
  \/ WorkerClaim
  \/ WorkerFind
  \/ WorkerCheckpoint
  \/ WorkerRun
  \/ WorkerRunRaises
  \/ WorkerHang
  \/ WorkerFinish

Spec == Init /\ [][Next]_vars

\* Submission and the reactive threads only.
NextReactive ==
  \/ \E req \in Requests : ApiUploadCreate(req)
  \/ \E t \in Ids : ApiUploadWrite(t)
  \/ \E t \in Ids : ApiUploadSave(t)
  \/ \E t \in Ids : ProcGet(t)
  \/ \E t \in Ids : ProcClaim(t)
  \/ \E t \in Ids : ProcFind(t)
  \/ \E t \in Ids : ProcCheckpoint(t)
  \/ \E t \in Ids : ProcRun(t)
  \/ \E t \in Ids : ProcFinish(t)

ReactiveSpec == InitReactive /\ [][NextReactive]_vars

\* Submission and the polling worker only.
NextPolling ==
  \/ \E req \in Requests : ApiUploadCreate(req)
  \/ \E t \in Ids : ApiUploadWrite(t)
  \/ \E t \in Ids : ApiUploadSave(t)
  \/ \E once \in BOOLEAN : WorkerStart(once)
  \/ WorkerExists
  \/ WorkerSleep
  \/ WorkerFetch
  \/ WorkerClaim
  \/ WorkerFind
  \/ WorkerCheckpoint
  \/ WorkerRun
  \/ WorkerRunRaises
  \/ WorkerHang
  \/ WorkerFinish

PollingSpec == InitPolling /\ [][NextPolling]_vars

\* The deployment in which the HTTP views are examined: the signal handler is
\* connected, no polling command runs.
InitSurface ==
  /\ SysInit
  /\ signals = TRUE
  /\ quota = MaxSurfaceTasks
  /\ pin = NoPure
  /\ pout = NoOut

\* Both submission views with every kind of request they accept, and the
\* reactive threads.
NextSubmit ==
  \/ \E req \in Submissions : ApiUploadCreate(req)
  \/ \E t \in Ids : ApiUploadWrite(t)
  \/ \E t \in Ids : ApiUploadSave(t)
  \/ \E req \in Submissions : ConvertMarkdownCreate(req)
  \/ \E t \in Ids : ConvertMarkdownWrite(t)
  \/ \E t \in Ids : ConvertMarkdownSave(t)
  \/ \E t \in Ids : ProcGet(t)
  \/ \E t \in Ids : ProcClaim(t)
  \/ \E t \in Ids : ProcFind(t)
  \/ \E t \in Ids : ProcCheckpoint(t)
  \/ \E t \in Ids : ProcRun(t)
  \/ \E t \in Ids : ProcFinish(t)

SubmitSpec == InitSurface /\ [][NextSubmit]_vars

\* Requests of every kind sent to api_upload, requests either view refuses, and
\* the reactive threads.
NextReject ==
  \/ \E req \in Submissions : ApiUploadCreate(req)
  \/ \E req \in Submissions : ApiUploadReject(req)
  \/ \E req \in Submissions : ConvertMarkdownReject(req)
  \/ \E t \in Ids : ApiUploadWrite(t)
  \/ \E t \in Ids : ApiUploadSave(t)
  \/ \E t \in Ids : ProcGet(t)
  \/ \E t \in Ids : ProcClaim(t)
  \/ \E t \in Ids : ProcFind(t)
  \/ \E t \in Ids : ProcCheckpoint(t)
  \/ \E t \in Ids : ProcRun(t)
  \/ \E t \in Ids : ProcFinish(t)

RejectSpec == InitSurface /\ [][NextReject]_vars

\* Submission, the reactive threads, and the status view called with any task
\* id, known or not.
NextStatus ==
  \/ \E req \in Requests : ApiUploadCreate(req)
  \/ \E t \in Ids : ApiUploadWrite(t)
  \/ \E t \in Ids : ApiUploadSave(t)
  \/ \E t \in Ids : ProcGet(t)
  \/ \E t \in Ids : ProcClaim(t)
  \/ \E t \in Ids : ProcFind(t)
  \/ \E t \in Ids : ProcCheckpoint(t)
  \/ \E t \in Ids : ProcRun(t)
  \/ \E t \in Ids : ProcFinish(t)
  \/ \E t \in Ids : Status(t)

StatusSpec == InitSurface /\ [][NextStatus]_vars

\* Submission, the reactive threads, and the status, download and delete views
\* called with any task id, known or not.
NextSurface ==
  \/ \E req \in Requests : ApiUploadCreate(req)
  \/ \E t \in Ids : ApiUploadWrite(t)
  \/ \E t \in Ids : ApiUploadSave(t)
  \/ \E t \in Ids : ProcGet(t)
  \/ \E t \in Ids : ProcClaim(t)
  \/ \E t \in Ids : ProcFind(t)
  \/ \E t \in Ids : ProcCheckpoint(t)
  \/ \E t \in Ids : ProcRun(t)
  \/ \E t \in Ids : ProcFinish(t)
  \/ \E t \in Ids : Status(t)
  \/ \E t \in Ids : DownloadDocx(t)
  \/ \E t \in Ids : DeleteTask(t)

SurfaceSpec == InitSurface /\ [][NextSurface]_vars

\* One dispatcher deployed: either the signal handler is connected and only the
\* reactive threads execute, or it is skipped and only the polling worker does.
InitSingleDispatcher ==
  /\ SysInit
  /\ signals \in BOOLEAN
  /\ quota = MaxTasks
  /\ pin = NoPure
  /\ pout = NoOut

NextSingleDispatcher ==
  \/ signals /\ NextReactive
  \/ ~signals /\ NextPolling

SingleDispatcherSpec == InitSingleDispatcher /\ [][NextSingleDispatcher]_vars

\* The reactive deployment with delete_task: several tasks are submitted and
\* executed while any of them may be deleted.
NextDelete ==
  \/ NextReactive
  \/ \E t \in Ids : DeleteTask(t)

DeleteSpec == InitReactive /\ [][NextDelete]_vars

\* ------------------------------------------------- the helpers on their own
\* All sequences over `chars` of length at most n.
SeqsUpTo(chars, n) == UNION {[1..k -> chars] : k \in 0..n}

\* str.upper() on one character, to draw upper-case spellings.
UpperChar(c) ==
  IF \E i \in DOMAIN LowerChars : LowerChars[i] = c
  THEN UpperChars[CHOOSE i \in DOMAIN LowerChars : LowerChars[i] = c]
  ELSE c
Upper(s) == [i \in DOMAIN s |-> UpperChar(s[i])]
Capitalized(s) == [i \in DOMAIN s |-> IF i = 1 THEN UpperChar(s[i]) ELSE s[i]]

F_MyReport ==
  <<"M","y"," ","R","e","p","o","r","t"," ","(","f","i","n","a","l",")","!",
    ".","m","d">>
F_Blank == <<" "," "," ",".","m","d">>

NameAlphabet == {"a", "-", " ", "!", ".", "/"}
ExtAlphabet == {"m", "d", "M", "D", "x"}

\* Client-supplied filenames drawn for _safe_output_name.
NameInputs ==
  { [kind |-> "name", text |-> n, fmt |-> f, id |-> t] :
      n \in SeqsUpTo(NameAlphabet, MaxNameLen) \cup {F_MyReport, F_Blank},
      f \in {S_pdf, <<>>}, t \in Ids }

KnownExts == DOMAIN SUPPORTED_OUTPUTS \cup DOMAIN INPUT_READERS

\* Extensions drawn for allowed_outputs and input_reader_for: short ones in
\* either case, and every key of the tables in lower, upper and capitalised
\* spelling.
ExtInputs ==
  { [kind |-> "ext", text |-> e, fmt |-> <<>>, id |-> 0] :
      e \in SeqsUpTo(ExtAlphabet, MaxExtLen) \cup KnownExts
              \cup {Upper(k) : k \in KnownExts} \cup {Capitalized(k) : k \in KnownExts} }

\* ------------------------------------------- one attempt of each executor
\* The PANDOC_BIN environment variable: not set, or the path of a wrapper.
Unset == "<unset>"
PandocBinEnv == {Unset, "/opt/pandoc/bin/pandoc"}

\* os.getenv('PANDOC_BIN', 'pandoc')
PANDOC_BIN(env) == IF env = Unset THEN "pandoc" ELSE env

\* _pandoc_command(inp, outp, reader_name, fmt) with its first word `bin`.
PandocCommand(bin, inp, outp, reader_name, fmt) ==
  <<bin, "-o", outp, "-f", reader_name, "-t", fmt, inp>>
    \o (IF fmt = S_pdf
        THEN <<"--pdf-engine=xelatex", "-V", "mainfont=DejaVu Sans",
               "-V", "sansfont=DejaVu Sans", "-V", "monofont=DejaVu Sans Mono">>
        ELSE <<>>)

\* (task.output_format or DEFAULT_OUTPUT).lstrip('.').lower()
OutputFmt(task) == Lower(LStripDots(OrDefault(task.output_format)))

\* The command an executor builds for `task` and the input file it found.
CommandFor(bin, task, input_name) ==
  PandocCommand(bin, <<"uploads", "/">> \o input_name, RelPath(OutputName(task)),
                input_reader_for(Lower(SuffixOf(input_name))), OutputFmt(task))

\* A converter that does not exit.
NeverExits ==
  [kind |-> "hang", returncode |-> 0, wrote |-> FALSE, stderr |-> "", stdout |-> ""]

\* How the converter behaves when it is run on an existing input file.
ConverterBehaviours == ProcResults(TRUE) \cup {NeverExits}

\* What an attempt leaves: the command it ran, whether it came to its terminal
\* save, and the fields of the task record it saved last.
AttemptOutcome(cmd, returned, task) ==
  [cmd |-> cmd, returned |-> returned, status |-> task.status,
   progress |-> task.progress, result_file |-> task.result_file,
   error_message |-> task.error_message]

\* _process_task on a PENDING task whose input file is `input_name`, with the
\* converter behaving as `b`: timeout=60 abandons a converter that does not
\* exit.
ReactiveAttempt(env, task, input_name, b) ==
  LET claimed == ProcCheckpointed(ProcClaimed(task))
      proc == IF b.kind = "hang" THEN RaisedTimeout ELSE Completed(b)
  IN  AttemptOutcome(CommandFor(PANDOC_BIN(env), task, input_name), TRUE,
                     Finished(claimed, proc, b.wrote, "pandoc failed with no output"))

\* One iteration of the for loop of process_tasks on the same task: the
\* command starts with the word 'pandoc' and subprocess.run has no timeout.
PollingAttempt(env, task, input_name, b) ==
  LET claimed == WorkerCheckpointed(WorkerClaimed(task))
  IN  IF b.kind = "hang"
      THEN AttemptOutcome(CommandFor("pandoc", task, input_name), FALSE, claimed)
      ELSE AttemptOutcome(CommandFor("pandoc", task, input_name), TRUE,
                          Finished(claimed, Completed(b), b.wrote, "pandoc failed"))

\* Tasks drawn for one attempt of each executor: an uploaded a.docx or pasted
\* text, converted to pdf or docx.
AttemptInputs ==
  { [kind |-> "attempt", text |-> n, fmt |-> f, id |-> t] :
      n \in {F_a_docx, <<>>}, f \in {S_pdf, S_docx}, t \in Ids }

InitPure ==
  /\ SysInit
  /\ signals = TRUE
  /\ quota = 0
  /\ pin \in NameInputs \cup ExtInputs \cup AttemptInputs
  /\ pout = NoOut

ApplySafeOutputName ==
  /\ pin.kind = "name"
  /\ pout = NoOut
  /\ pout' = [op |-> "_safe_output_name",
              value |-> SafeOutputName(pin.id, pin.text, pin.fmt)]
  /\ UNCHANGED <<sysVars, pin>>

ApplyAllowedOutputs ==
  /\ pin.kind = "ext"
  /\ pout.op # "allowed_outputs"
  /\ pout' = [op |-> "allowed_outputs", value |-> allowed_outputs(pin.text)]
  /\ UNCHANGED <<sysVars, pin>>

ApplyInputReaderFor ==
  /\ pin.kind = "ext"
  /\ pout.op # "input_reader_for"
  /\ pout' = [op |-> "input_reader_for", value |-> input_reader_for(pin.text)]
  /\ UNCHANGED <<sysVars, pin>>

\* Both executors run on the same task, input file, environment and converter
\* behaviour.
ApplyAttempts ==
  /\ pin.kind = "attempt"
  /\ pout = NoOut
  /\ \E env \in PandocBinEnv, b \in ConverterBehaviours :
       LET task == NewTask(pin.id, pin.fmt, pin.text)
           input_ext == IF pin.text = <<>> THEN S_md ELSE Lower(SuffixOf(pin.text))
           input_name == InputName(pin.id, IF input_ext = <<>> THEN S_md ELSE input_ext)
       IN  pout' = [op |-> "attempts",
                    value |-> [env |-> env, behaviour |-> b,
                               reactive |-> ReactiveAttempt(env, task, input_name, b),
                               polling |-> PollingAttempt(env, task, input_name, b)]]
  /\ UNCHANGED <<sysVars, pin>>

NextPure ==
  \/ ApplySafeOutputName
  \/ ApplyAllowedOutputs
  \/ ApplyInputReaderFor
  \/ ApplyAttempts

PureSpec == InitPure /\ [][NextPure]_vars

\* Fair scheduling of the reactive deployment: a request handler and a started
\* thread keep running until they return.
FairReactiveSpec == ReactiveSpec /\ WF_vars(NextReactive)

\* Fair scheduling of the polling deployment: request handlers and the worker
\* process keep running while they have a step to take.
FairPollingSpec == PollingSpec /\ WF_vars(NextPolling)

\* ----------------------------------------------------------------- claims
Terminal == {STATUS_DONE, STATUS_FAILED}

\* C1: under any interleaving of the reactive thread and the polling worker the
\* converter is invoked at most once per task.
C1_ConverterAtMostOnce == \A t \in Ids : runs[t] <= 1

\* C2: a task whose stored status has left PENDING is never PENDING again.
C2_NeverPendingAgain ==
  [][\A t \in DOMAIN store :
       (store[t].status # STATUS_PENDING /\ t \in DOMAIN store')
         => store'[t].status # STATUS_PENDING]_vars

\* C3: a task whose stored status is DONE or FAILED is never moved to
\* PROCESSING or to the other terminal state.
C3_TerminalIsFinal ==
  [][\A t \in DOMAIN store :
       (store[t].status \in Terminal /\ t \in DOMAIN store')
         => store'[t].status \notin ({STATUS_PROCESSING} \cup Terminal) \ {store[t].status}]_vars

\* C4: for every task record, result_file is populated if and only if the
\* status is DONE.
C4_ResultIffDone ==
  \A t \in DOMAIN store :
    (store[t].result_file # <<>>) <=> (store[t].status = STATUS_DONE)

\* C5: for every task record, error_message is non-empty if and only if the
\* status is FAILED.
C5_ErrorIffFailed ==
  \A t \in DOMAIN store :
    (store[t].error_message # "") <=> (store[t].status = STATUS_FAILED)

\* C6: the stored progress of a task never decreases, except for the reset to 0
\* that is part of the transition to FAILED.
C6_ProgressMonotonic ==
  [][\A t \in DOMAIN store :
       (t \in DOMAIN store' /\ store'[t].progress < store[t].progress)
         => /\ store'[t].status = STATUS_FAILED
            /\ store[t].status # STATUS_FAILED
            /\ store'[t].progress = 0]_vars

\* C7: under fair scheduling every task created by a submission eventually
\* reaches DONE or FAILED and stays there (a record, once created, stays in the
\* store, so from some point on it is terminal whenever it exists).
C7_EventuallyTerminal ==
  \A t \in Ids : <>[](t \in DOMAIN store => store[t].status \in Terminal)

\* C8: any two distinct tasks have distinct input paths and distinct derived
\* output paths, and no two records refer to the same result file.
C8_PathsDistinct ==
  \A t1, t2 \in DOMAIN store :
    t1 # t2 =>
      /\ \A e1, e2 \in DOMAIN INPUT_READERS : InputName(t1, e1) # InputName(t2, e2)
      /\ OutputName(store[t1]) # OutputName(store[t2])
      /\ (store[t1].result_file # <<>> => store[t1].result_file # store[t2].result_file)

\* The stem _safe_output_name starts from, and the extension it appends.
DrawnStem == Strip(PathStem(PathName(pin.text)))
DrawnExt == IF pin.fmt = <<>> THEN S_docx ELSE pin.fmt

\* Positions of s that survive sanitising: a character of the class, or the
\* first character of a run of characters outside it.
KeptPositions(s) ==
  {i \in DOMAIN s : s[i] \in AllowedChars \/ i = 1 \/ s[i-1] \in AllowedChars}

\* s with every maximal run of characters outside the class written as one "_".
RunsAsUnderscore(s) ==
  LET kept == KeptPositions(s)
      at(k) == CHOOSE i \in kept : Cardinality({j \in kept : j <= i}) = k
  IN  [k \in 1..Cardinality(kept) |->
         IF s[at(k)] \in AllowedChars THEN s[at(k)] ELSE "_"]

\* s with every character outside the class written as one "_".
EachAsUnderscore(s) ==
  [i \in DOMAIN s |-> IF s[i] \in AllowedChars THEN s[i] ELSE "_"]

\* C9 (as stated): the derived name writes one "_" per disallowed character of
\* the stem, so "My Report (final)!.md" gives "My_Report__final_.pdf"; an empty
\* or whitespace-only stem gives "{task_id}.pdf".
C9_OneUnderscorePerCharacter ==
  pout.op = "_safe_output_name" =>
    pout.value =
      IF DrawnStem # <<>>
      THEN EachAsUnderscore(DrawnStem) \o <<".">> \o DrawnExt
      ELSE IdStr(pin.id) \o <<".">> \o DrawnExt

\* C9 (amended): the derived name writes one "_" per maximal run of disallowed
\* characters of the stem, so "My Report (final)!.md" with pdf gives
\* "My_Report_final_.pdf"; an empty or whitespace-only stem gives
\* "{task_id}.pdf".
C9_OneUnderscorePerRun ==
  pout.op = "_safe_output_name" =>
    /\ pout.value =
         IF DrawnStem # <<>>
         THEN RunsAsUnderscore(DrawnStem) \o <<".">> \o DrawnExt
         ELSE IdStr(pin.id) \o <<".">> \o DrawnExt
    /\ (pin.text = F_MyReport /\ pin.fmt = S_pdf) =>
         pout.value = <<"M","y","_","R","e","p","o","r","t","_","f","i","n","a","l",
                        "_",".","p","d","f">>
    /\ (pin.text = F_Blank /\ pin.fmt = S_pdf) =>
         pout.value = IdStr(pin.id) \o <<".","p","d","f">>

\* The name of "My Report (final)!.md" has been derived: two of its runs of
\* disallowed characters are two characters long.
C9_Witness ==
  /\ pin.text = F_MyReport
  /\ pin.fmt = S_pdf
  /\ pout.op = "_safe_output_name"
  /\ Len(pout.value) < Len(DrawnStem) + 4

\* C10: allowed_outputs is case-insensitive and never empty, gives [docx] for an
\* extension without a mapping and docx, pdf and html for md; input_reader_for
\* is case-insensitive and gives markdown for an extension without a mapping.
C10_ResolverTotalCaseInsensitive ==
  /\ pout.op = "allowed_outputs" =>
       /\ Len(pout.value) >= 1
       /\ pout.value = allowed_outputs(Lower(pin.text))
       /\ Lower(pin.text) \notin DOMAIN SUPPORTED_OUTPUTS => pout.value = <<S_docx>>
       /\ Lower(pin.text) \in DOMAIN SUPPORTED_OUTPUTS
            => pout.value = SUPPORTED_OUTPUTS[Lower(pin.text)]
       /\ Lower(pin.text) = S_md => {S_docx, S_pdf, S_html} \subseteq Range(pout.value)
  /\ pout.op = "input_reader_for" =>
       /\ pout.value = input_reader_for(Lower(pin.text))
       /\ Lower(pin.text) \notin DOMAIN INPUT_READERS => pout.value = S_markdown
       /\ Lower(pin.text) \in DOMAIN INPUT_READERS
            => pout.value = INPUT_READERS[Lower(pin.text)]

\* allowed_outputs has been applied to the upper-case spelling "MD".
C10_Witness ==
  /\ pin.text = <<"M", "D">>
  /\ pout.op = "allowed_outputs"
  /\ S_pdf \in Range(pout.value)

\* The input extension the submission view detects for a stored record: the
\* text after the last dot of the uploaded file's name in lower case, nothing
\* for a name without a dot, md for pasted text.
DetectedExt(task) ==
  IF task.original_filename = <<>> THEN S_md
  ELSE IF RFind(task.original_filename, ".") > 0
       THEN Lower(From(task.original_filename, RFind(task.original_filename, ".") + 1))
       ELSE <<>>

\* A request the validation must refuse: neither file nor text, or a format
\* outside the allowed outputs of the detected input extension.
FailsValidation(req) ==
  \/ ~req.uploaded /\ ~req.markdown
  \/ \A i \in DOMAIN allowed_outputs(InputExt(req)) :
        allowed_outputs(InputExt(req))[i] # Lower(req.output_format)

\* C11: every task record created by api_upload or convert_markdown has an
\* output_format that is one of the allowed outputs of the input extension
\* detected at creation, and no later step changes a record's output_format.
C11_OutputFormatAllowedAndFixed ==
  /\ [](\A t \in DOMAIN store :
          \E i \in DOMAIN allowed_outputs(DetectedExt(store[t])) :
             allowed_outputs(DetectedExt(store[t]))[i] = store[t].output_format)
  /\ [][\A t \in DOMAIN store :
          t \in DOMAIN store' => store'[t].output_format = store[t].output_format]_vars

\* The file A.MD submitted with format PDF has been converted: its record holds
\* pdf, which the executor's saves left alone.
C11_Witness ==
  /\ 1 \in DOMAIN store
  /\ store[1].original_filename = F_A_MD
  /\ store[1].output_format = S_pdf
  /\ store[1].status = STATUS_DONE
  /\ hpc[1] = "cm_done"

\* C12: a submission that fails validation is answered with status 400 and
\* leaves the task store, the uploads directory, the exports directory and the
\* executors as they were; no task is ever created for such a request.
C12_RejectedSubmissionLeavesNoTrace ==
  /\ [][resp' # resp =>
         /\ resp'.code = 400
         /\ resp'.view \in {"api_upload", "convert_markdown"}
         /\ store' = store /\ uploads' = uploads /\ exports' = exports
         /\ nextId' = nextId /\ tpc' = tpc /\ runs' = runs /\ hpc' = hpc]_vars
  /\ [][\A t \in Ids :
          (hpc[t] = "idle" /\ hpc'[t] # "idle") => ~FailsValidation(hloc'[t].req)]_vars
  /\ [](resp.view # "none" => resp.code = 400)

\* convert_markdown has refused a request while the thread of an accepted task
\* was about to run the converter.
C12_Witness ==
  /\ resp.view = "convert_markdown"
  /\ resp.code = 400
  /\ resp.error = "Unsupported output format"
  /\ tpc[1] = "run"
  /\ DOMAIN store = {1}
  /\ uploads = {InputName(1, S_docx)}

\* C13: a successful api_upload creates exactly one record, whose id is the
\* returned task_id; when the response (201, status "pending", with task_id,
\* status_url and download_url) is returned that record is in the store with
\* status PENDING and progress 0.
C13_UploadCreatesOnePendingTask ==
  /\ [](\A t \in Ids :
          hresp[t].view = "api_upload" =>
            /\ hresp[t].code = 201
            /\ hresp[t].id = t
            /\ hresp[t].status = STATUS_PENDING
            /\ {"status", "task_id", "status_url", "download_url"} \subseteq hresp[t].keys)
  /\ [][\A t \in Ids :
          (hpc[t] = "idle" /\ hpc'[t] = "created") =>
            /\ t \notin DOMAIN store
            /\ DOMAIN store' = DOMAIN store \cup {t}
            /\ \A u \in DOMAIN store : store'[u] = store[u]]_vars
  /\ [][\A t \in Ids :
          (hpc[t] = "written" /\ hpc'[t] = "done") =>
            /\ hresp'[t].view = "api_upload"
            /\ DOMAIN store' = DOMAIN store \cup {t}
            /\ store'[t].id = hresp'[t].id
            /\ store'[t].status = STATUS_PENDING
            /\ store'[t].progress = 0]_vars

\* api_upload has answered for task 1 after the task's thread had already
\* claimed it.
C13_Witness ==
  /\ hpc[1] = "done"
  /\ hresp[1].code = 201
  /\ tpc[1] = "find"
  /\ store[1].status = STATUS_PENDING

\* C14: for every task record there is exactly one file in the uploads root
\* whose stem is the task id, named {task-id}.{detected input extension, or md
\* when none was detected}.
C14_OneInputFilePerTask ==
  \A t \in DOMAIN store :
    GlobInput(t) =
      {InputName(t, IF DetectedExt(store[t]) = <<>> THEN S_md
                    ELSE DetectedExt(store[t]))}

\* C15: when delete_task has removed an existing task's record, the task's
\* output file is gone from the exports directory and no file whose stem is the
\* task id is left in the uploads directory, whatever its extension.
C15_DeleteRemovesRecordAndFiles ==
  [][\A t \in DOMAIN store :
       t \notin DOMAIN store' =>
         /\ OutputName(store[t]) \notin exports'
         /\ \A f \in uploads' : ~(Len(f) > 2 /\ Upto(f, 2) = IdStr(t) \o <<".">>)]_vars

\* C16: delete_task called with an id that is not in the store changes neither
\* the store nor the two directories and answers with a redirect.
C16_DeleteUnknownIsNoOp ==
  [][(resp' # resp /\ resp'.view = "delete_task" /\ resp'.id \notin DOMAIN store) =>
       /\ store' = store /\ uploads' = uploads /\ exports' = exports
       /\ resp'.code = 302]_vars

C18_DownloadOnlyWhenDone ==
  [][(resp' # resp /\ resp'.view = "download") =>
       IF /\ resp'.id \in DOMAIN store
          /\ store[resp'.id].status = STATUS_DONE
          /\ store[resp'.id].result_file # <<>>
       THEN TRUE
       ELSE resp'.code = 404]_vars

\* The step in which the reactive thread or the polling worker makes its
\* terminal save for task t.
ThreadFinishes(t) == tpc[t] = "finish" /\ tpc'[t] = "done"
WorkerFinishes(t) == wpc = "finish" /\ wtask.id = t /\ wpc' # "finish"

\* What subprocess.run gave the executor that is finishing task t, and the
\* task object that executor holds.
FinishingResult(t) == IF ThreadFinishes(t) THEN tproc[t] ELSE wproc
FinishingTask(t) == IF ThreadFinishes(t) THEN tmem[t] ELSE wtask

\* C19: a task's stored status becomes DONE only in an executor's terminal
\* save, only when that executor's converter invocation exited with status
\* zero and the output file exists at the task's output path; the save then
\* records the output path relative to the storage root, progress 100 and an
\* empty error_message.  A zero exit without an output file never gives DONE.
C19_DoneOnlyOnSuccess ==
  /\ [][\A t \in DOMAIN store' :
          (store'[t].status = STATUS_DONE
             /\ (t \notin DOMAIN store \/ store[t].status # STATUS_DONE)) =>
            /\ ThreadFinishes(t) \/ WorkerFinishes(t)
            /\ FinishingResult(t).kind = "exit"
            /\ FinishingResult(t).returncode = 0
            /\ OutputName(store'[t]) \in exports
            /\ store'[t].result_file = <<"exports", "/">> \o OutputName(store'[t])
            /\ store'[t].progress = 100
            /\ store'[t].error_message = ""]_vars
  /\ [][\A t \in Ids :
          ((ThreadFinishes(t) \/ WorkerFinishes(t))
             /\ OutputName(FinishingTask(t)) \notin exports) =>
            store'[t].status # STATUS_DONE]_vars

\* A task has been converted by its one converter invocation and its result
\* file is in the exports directory.
C19_Witness ==
  /\ 1 \in DOMAIN store
  /\ store[1].status = STATUS_DONE
  /\ store[1].progress = 100
  /\ PathName(store[1].result_file) \in exports
  /\ runs[1] = 1

\* C20: when the converter exited non-zero or left no output file, the
\* executor's terminal save sets FAILED, progress 0 and as error_message the
\* converter's standard error if non-empty, else its standard output if
\* non-empty, else a non-empty generic message; when subprocess.run raised, the
\* save sets FAILED and progress 0 and the executor carries on (the thread
\* returns, the worker goes to its next task or its next poll).
C20_FailureIsRecorded ==
  [][\A t \in Ids :
       (ThreadFinishes(t) \/ WorkerFinishes(t)) =>
         LET proc == FinishingResult(t)
             task == FinishingTask(t)
         IN  /\ (proc.kind = "exit"
                  /\ (proc.returncode # 0 \/ OutputName(task) \notin exports)) =>
                   /\ store'[t].status = STATUS_FAILED
                   /\ store'[t].progress = 0
                   /\ store'[t].error_message # ""
                   /\ proc.stderr # "" => store'[t].error_message = proc.stderr
                   /\ (proc.stderr = "" /\ proc.stdout # "") =>
                        store'[t].error_message = proc.stdout
                   /\ (proc.stderr = "" /\ proc.stdout = "") =>
                        store'[t].error_message
                          \in {"pandoc failed with no output", "pandoc failed"}
             /\ proc.kind = "raise" =>
                   /\ store'[t].status = STATUS_FAILED
                   /\ store'[t].progress = 0
                   /\ ThreadFinishes(t) => tpc'[t] = "done"
                   /\ (~ThreadFinishes(t)) => wpc' \in {"claim", "sleep", "exited"}]_vars

\* A converter that exited non-zero with text on both streams has been recorded:
\* the task is FAILED with the standard-error text.
C20_Witness ==
  /\ 1 \in DOMAIN store
  /\ store[1].status = STATUS_FAILED
  /\ store[1].progress = 0
  /\ store[1].error_message = "pandoc: error"
  /\ runs[1] = 1

\* C21: every execution attempt abandons a converter that does not exit, so a
\* task that has been claimed (stored status PROCESSING) does not stay
\* PROCESSING forever.
C21_ClaimedTaskLeavesProcessing ==
  \A t \in Ids :
    [](( t \in DOMAIN store /\ store[t].status = STATUS_PROCESSING)
         => <>(t \notin DOMAIN store \/ store[t].status # STATUS_PROCESSING))

\* C22: when the polling worker has marked a task FAILED, no other task's
\* record has changed and the loop goes on: the next task of the same scan is
\* claimed, or, the scan being over, the command sleeps and scans again (it
\* returns only with --once); a claimed task is then executed and a sleep is
\* followed by a scan.
C22_FailureDoesNotStopTheLoop ==
  /\ [][\A t \in Ids :
          (WorkerFinishes(t) /\ store'[t].status = STATUS_FAILED) =>
            /\ \A u \in DOMAIN store \ {t} : u \in DOMAIN store' /\ store'[u] = store[u]
            /\ IF wlist # <<>>
               THEN wpc' = "claim" /\ wtask' = Head(wlist) /\ wlist' = Tail(wlist)
               ELSE wpc' = IF wonce THEN "exited" ELSE "sleep"]_vars
  /\ [][(wpc = "claim" /\ wpc' # wpc) =>
          (wpc' = "find" /\ store'[wtask.id].status = STATUS_PROCESSING)]_vars
  /\ [][(wpc = "sleep" /\ wpc' # wpc) => wpc' = "scan"]_vars

\* The worker could not start the converter for task 1, marked it FAILED and
\* went on to convert task 2 of the same scan.
C22_Witness ==
  /\ DOMAIN store = {1, 2}
  /\ store[1].status = STATUS_FAILED
  /\ store[1].error_message = "No such file or directory: pandoc"
  /\ store[2].status = STATUS_DONE
  /\ runs[2] = 1

\* C23: the task the polling worker claims is the oldest of those still to be
\* iterated in its scan, a scan starts from all PENDING rows, and the worker
\* claims the next task only after it has saved the terminal status of the
\* task before, which was created earlier.
C23_OldestFirstOneAtATime ==
  [][(wpc' = "claim" /\ wpc # "claim") =>
       /\ \A i \in DOMAIN wlist' : wtask'.created_at <= wlist'[i].created_at
       /\ wpc \in {"fetch", "finish"}
       /\ wpc = "fetch" => {wtask'} \cup Range(wlist') = PendingRows
       /\ wpc = "finish" =>
            /\ wtask.created_at <= wtask'.created_at
            /\ store'[wtask.id].status \in Terminal]_vars

\* The worker is about to claim task 2 after it has finished task 1 of the
\* same scan.
C23_Witness ==
  /\ wpc = "claim"
  /\ wtask.id = 2
  /\ store[1].status \in Terminal
  /\ runs[1] = 1
  /\ runs[2] = 0

\* C24: with --once the command never sleeps and never scans a second time:
\* it returns from the scan when nothing is PENDING, and otherwise after the
\* last task of the scanned list has been saved DONE or FAILED, every task of
\* the list having been claimed in turn; without --once it never returns and
\* every sleep is followed by a scan.
C24_OnceMeansOneScan ==
  /\ [](wonce => wpc # "sleep")
  /\ [](~wonce => wpc # "exited")
  /\ [][wonce => (wpc' = "scan" => wpc \in {"off", "scan"})]_vars
  /\ [][(wpc' = "exited" /\ wpc # "exited") =>
          \/ wpc = "scan" /\ PendingRows = {}
          \/ /\ wpc = "finish"
             /\ wlist = <<>>
             /\ store'[wtask.id].status \in Terminal]_vars
  /\ [][(wonce /\ wpc = "scan" /\ PendingRows = {} /\ wpc' # wpc) => wpc' = "exited"]_vars
  /\ [][(wlist' # wlist /\ wpc # "fetch") =>
          (wpc = "finish" /\ wpc' = "claim" /\ wtask' = Head(wlist)
             /\ wlist' = Tail(wlist))]_vars
  /\ [][(~wonce /\ wpc = "sleep" /\ wpc' # wpc) => wpc' = "scan"]_vars

\* `process_tasks --once` has returned after converting the two tasks that
\* were pending at its scan.
C24_Witness ==
  /\ wonce
  /\ wpc = "exited"
  /\ DOMAIN store = {1, 2}
  /\ runs[1] = 1 /\ runs[2] = 1
  /\ store[1].status \in Terminal /\ store[2].status \in Terminal

\* With --once a started command ends up returned, unless it is inside a
\* converter that never exits.
C24_OnceTerminates == [](wonce /\ wpc # "off" => <>(wpc \in {"exited", "hung"}))

\* C26: the derived output filename is a non-empty stem of characters of
\* [A-Za-z0-9_-] (the sanitised client stem, or the task id), a dot and the
\* output format; it holds no path separator and is one path component other
\* than "..", so the output path is a direct child of the exports directory.
C26_OutputNameIsSafe ==
  pout.op = "_safe_output_name" =>
    LET stem == Upto(pout.value, Len(pout.value) - Len(DrawnExt) - 1)
    IN  /\ pout.value = stem \o <<".">> \o DrawnExt
        /\ stem # <<>>
        /\ \A i \in DOMAIN stem : stem[i] \in AllowedChars
        /\ DrawnStem = <<>> => stem = IdStr(pin.id)
        /\ "/" \notin Range(pout.value)
        /\ PathParts(pout.value) = <<pout.value>>
        /\ pout.value # <<".", ".">>

\* The name has been derived for a client filename that ends in a ".."
\* component below a directory.
C26_Witness ==
  /\ pout.op = "_safe_output_name"
  /\ pin.text = <<"a", "/", ".", ".">>
  /\ pin.fmt = S_pdf
  /\ pout.value = <<"_", ".", "p", "d", "f">>

\* C27: when the reactive thread resolves a task's input path, the submission
\* handler has written that task's input file: the path found is the existing
\* file {task-id}.{detected input extension, or md when none was detected},
\* not the '.md' fallback, and the reader-format taken from its suffix is
\* input_reader_for(the detected extension).
C27_InputResolvedAfterWrite ==
  [][\A t \in Ids :
       (tpc[t] = "find" /\ tpc'[t] = "checkpoint") =>
         /\ GlobInput(t) # {}
         /\ tin'[t] \in uploads
         /\ tin'[t] = InputName(t, IF DetectedExt(tmem[t]) = <<>> THEN S_md
                                   ELSE DetectedExt(tmem[t]))
         /\ input_reader_for(SuffixOf(tin'[t]))
              = input_reader_for(DetectedExt(tmem[t]))]_vars

\* C28: a task that has been created and whose record is gone from the store
\* has no record in the next state either, so a deleted record never comes
\* back.
C28_DeletedRecordStaysDeleted ==
  [][\A t \in 1..nextId : t \notin DOMAIN store => t \notin DOMAIN store']_vars

\* C28: once a task's record is gone, no record of it reappears, no input file
\* named after its id appears in the uploads directory and no file appears in
\* the exports directory under the output name of an execution of that task.
C28_DeletedStaysDeleted ==
  [][\A t \in 1..nextId :
       t \notin DOMAIN store =>
         /\ t \notin DOMAIN store'
         /\ GlobInput(t)' \subseteq GlobInput(t)
         /\ (tpc[t] = "run" /\ tpc'[t] = "finish") => exports' = exports]_vars

\* C29: for every task record with status DONE the file its result_file names
\* is present in the exports directory.
C29_DoneResultExists ==
  \A t \in DOMAIN store :
    store[t].status = STATUS_DONE => PathName(store[t].result_file) \in exports

\* C25: for the same task, input file and converter behaviour, the reactive
\* attempt and the polling attempt run the same converter command and leave
\* the task record with the same terminal status, progress, result file and
\* error message.
C25_ExecutorsEquivalent ==
  pout.op = "attempts" => pout.value.reactive = pout.value.polling

\* C25 with the configuration and the behaviours set aside on which the two
\* differ: PANDOC_BIN not set, a converter that exits, and a failure that
\* prints a diagnostic.
C25_EquivalentOnCommonGround ==
  ( /\ pout.op = "attempts"
    /\ pout.value.env = Unset
    /\ pout.value.behaviour.kind # "hang"
    /\ pout.value.reactive.status = STATUS_FAILED
          => pout.value.behaviour.stderr # "" )
    => pout.value.reactive = pout.value.polling

====
